---- MODULE Spec2Model ----
(***************************************************************************)
(* Model of src/schema.py: the WebDriverPool, the lru_cache'd lookup       *)
(* attempt check_scheme_id, the retry loop check_with_retry and the        *)
(* request threads that drive them.                                        *)
(*                                                                         *)
(* The specifications share the variables:                                 *)
(*   Spec      - request threads running check_with_retry/check_scheme_id  *)
(*               against the cache and the pool;                           *)
(*   SpecPool  - concurrent callers of get_driver / release_driver, each   *)
(*               following check_scheme_id's get, use, release discipline; *)
(*   SpecRetry - check_with_retry driven with a scripted attempt function  *)
(*               (one that may raise), for every budget and script.        *)
(*   SpecSeq   - one caller alone doing get_driver then release_driver;    *)
(*   SpecExit  - callers of the pool with cleanup_drivers run at exit;     *)
(*   SpecStatus - one request through check_status: validation, lookup,    *)
(*               parse, answer;                                            *)
(*   SpecParse - parse_eligibility_text on every text of bounded length.   *)
(***************************************************************************)
EXTENDS Integers, Sequences, FiniteSets, TLC

(* ------------------------------ bounds -------------------------------- *)
\* request threads of Spec
NumThreads == 2
\* distinct scheme ids requested in Spec
NumIds == 2
\* requests started in one behaviour of Spec
MaxRequests == 4
\* concurrent callers of the pool in SpecPool
NumCallers == 4
\* get_driver calls in one behaviour of SpecPool
MaxCalls == 6
\* largest max_retries tried in SpecRetry
MaxTries == 3
\* lines of a text given to parse_eligibility_text in SpecParse
MaxLines == 4
\* characters of a scheme_id posted to check_status in SpecStatus
MaxIdLen == 3

(* ------------------------- program constants -------------------------- *)
\* WebDriverPool.MAX_POOL_SIZE
MAX_POOL_SIZE == 5
\* @lru_cache(maxsize=100)
CACHE_MAXSIZE == 100
\* check_with_retry(scheme_id, max_retries=3)
DEFAULT_MAX_RETRIES == 3

None == 0
Threads == 1..NumThreads
Callers == 1..NumCallers
Procs == 1..(IF NumThreads > NumCallers THEN NumThreads ELSE NumCallers)
Ids == 1..NumIds
DriverIds == 1..(MaxCalls + MaxRequests)

(* ------------------------------ outcomes ------------------------------ *)
\* The dictionaries check_scheme_id / check_with_retry return.  code = ""
\* and message = FALSE stand for a dictionary without that key.
\* A text is the sequence of its lines (split at newlines), a line the
\* sequence of its characters; a word that the code never looks into is one
\* character of the model.  The empty string has no line.
NoCode == ""
NoText == <<>>
MARKER == "Eligibility Details"
SPACE == " "
COLON == ":"

NoResult == [status |-> "none", code |-> NoCode, message |-> FALSE, text |-> NoText]
NoneResult == [status |-> "None", code |-> NoCode, message |-> FALSE, text |-> NoText]
NoDriverOutcome == [status |-> "error", code |-> NoCode, message |-> FALSE, text |-> NoText]
ErrorOutcome(c) == [status |-> "error", code |-> c, message |-> TRUE, text |-> NoText]
SuccessOutcome(txt) == [status |-> "success", code |-> NoCode, message |-> FALSE, text |-> txt]

VARIABLES
  drivers,      \* WebDriverPool._drivers, the class-level list
  nextDriver,   \* number of sessions constructed so far (their ids are 1..nextDriver)
  quits,        \* per session: number of quit() calls made on it
  leases,       \* per session: callers that got it from get_driver and have not
                \* yet passed it to release_driver
  cache,        \* lru_cache of check_scheme_id: <<key, value>> records, least recent first
  pc,           \* per thread / caller: position in the code
  sid,          \* per thread: scheme_id of the request
  driver,       \* per thread / caller: the local variable driver
  result,       \* per thread: the value check_with_retry returned
  reqs,         \* per thread: requests the thread has begun
  started,      \* requests (Spec) or get_driver calls (SpecPool) started so far
  script,       \* SpecRetry: what the attempt function does on its i-th invocation
  maxRetries,   \* SpecRetry: the max_retries argument
  attempt,      \* SpecRetry: the loop variable attempt
  invoked,      \* SpecRetry: invocations of the attempt function so far
  rpc,          \* SpecRetry: position in check_with_retry
  rResult,      \* SpecRetry: the value check_with_retry returned
  exited,       \* the interpreter is exiting: cleanup_drivers (atexit) has run
  idleBefore,   \* SpecSeq: len(_drivers) when the caller entered get_driver
  schemeId,     \* SpecStatus: data.get('scheme_id') of the request
  passed,       \* SpecStatus: the argument check_status gave check_with_retry
  site,         \* SpecStatus: the remote page the attempt sees
  outcome,      \* SpecStatus: the dictionary the attempt returned
  response,     \* SpecStatus: the HTTP status check_status answered with
  spc,          \* SpecStatus: position in check_status
  ptext,        \* parse_eligibility_text: the argument text, as lines
  lineNo,       \* parse_eligibility_text: lines of the loop already handled
  data,         \* parse_eligibility_text: the dictionary data
  currentKey,   \* parse_eligibility_text: current_key
  formatted,    \* parse_eligibility_text: the returned formatted_data
  ppc           \* parse_eligibility_text: position in the function

poolVars == <<drivers, nextDriver, quits, leases>>
threadVars == <<pc, sid, driver, result, reqs, started>>
retryVars == <<script, maxRetries, attempt, invoked, rpc, rResult>>
statusVars == <<schemeId, passed, site, outcome, response, spc>>
parseVars == <<ptext, lineNo, data, currentKey, formatted, ppc>>
restVars == <<exited, idleBefore, statusVars, parseVars>>
vars == <<drivers, nextDriver, quits, leases, cache, pc, sid, driver, result,
          reqs, started, script, maxRetries, attempt, invoked,
          rpc, rResult, exited, idleBefore, schemeId, passed, site, outcome,
          response, spc, ptext, lineNo, data, currentKey, formatted, ppc>>

(* ------------------------------ the pool ------------------------------ *)
\* get_driver, line 110: len(cls._drivers) < cls.MAX_POOL_SIZE
CanCreate(ds) == Len(ds) < MAX_POOL_SIZE

\* release_driver, line 138: len(cls._drivers) < cls.MAX_POOL_SIZE
HasRoom(ds) == Len(ds) < MAX_POOL_SIZE

\* get_driver, lines 110 and 125: which branch the call takes
GetCheck(p) ==
  /\ ~exited
  /\ pc[p] = "get"
  /\ pc' = [pc EXCEPT ![p] = IF CanCreate(drivers) THEN "create" ELSE "pop"]
  /\ UNCHANGED <<poolVars, cache, sid, driver, result, reqs, started, retryVars, restVars>>

\* get_driver, lines 113-120: webdriver.Chrome() succeeds; the new session is
\* appended to _drivers and returned
GetCreate(p) ==
  /\ ~exited
  /\ pc[p] = "create"
  /\ nextDriver' = nextDriver + 1
  /\ drivers' = Append(drivers, nextDriver + 1)
  /\ driver' = [driver EXCEPT ![p] = nextDriver + 1]
  /\ leases' = [leases EXCEPT ![nextDriver + 1] = @ + 1]
  /\ pc' = [pc EXCEPT ![p] = "got"]
  /\ UNCHANGED <<quits, cache, sid, result, reqs, started, retryVars, restVars>>

\* get_driver, lines 121-123: webdriver.Chrome() raises; None is returned
GetCreateFail(p) ==
  /\ ~exited
  /\ pc[p] = "create"
  /\ driver' = [driver EXCEPT ![p] = None]
  /\ pc' = [pc EXCEPT ![p] = "got"]
  /\ UNCHANGED <<poolVars, cache, sid, result, reqs, started, retryVars, restVars>>

\* get_driver, lines 126-130: pop(0) of a non-empty list, else None
GetPop(p) ==
  /\ ~exited
  /\ pc[p] = "pop"
  /\ IF drivers # <<>>
     THEN /\ driver' = [driver EXCEPT ![p] = Head(drivers)]
          /\ drivers' = Tail(drivers)
          /\ leases' = [leases EXCEPT ![Head(drivers)] = @ + 1]
     ELSE /\ driver' = [driver EXCEPT ![p] = None]
          /\ UNCHANGED <<drivers, leases>>
  /\ pc' = [pc EXCEPT ![p] = "got"]
  /\ UNCHANGED <<nextDriver, quits, cache, sid, result, reqs, started, retryVars, restVars>>

\* release_driver, lines 137-138: the caller passes its session; which branch
ReleaseCheck(p) ==
  /\ ~exited
  /\ pc[p] = "release"
  /\ IF driver[p] = None
     THEN /\ pc' = [pc EXCEPT ![p] = "return"]
          /\ UNCHANGED leases
     ELSE /\ leases' = [leases EXCEPT ![driver[p]] = @ - 1]
          /\ pc' = [pc EXCEPT ![p] = IF HasRoom(drivers) THEN "rel_append" ELSE "rel_quit"]
  /\ UNCHANGED <<drivers, nextDriver, quits, cache, sid, driver, result, reqs, started, retryVars, restVars>>

\* release_driver, line 139; with its return the finally block of the caller
\* ends and the caller's frame (its local driver) is gone
ReleaseAppend(p) ==
  /\ ~exited
  /\ pc[p] = "rel_append"
  /\ drivers' = Append(drivers, driver[p])
  /\ driver' = [driver EXCEPT ![p] = None]
  /\ pc' = [pc EXCEPT ![p] = "return"]
  /\ UNCHANGED <<nextDriver, quits, leases, cache, sid, result, reqs, started, retryVars, restVars>>

\* release_driver, lines 141-144: quit() (an exception it raises is logged)
ReleaseQuit(p) ==
  /\ ~exited
  /\ pc[p] = "rel_quit"
  /\ quits' = [quits EXCEPT ![driver[p]] = @ + 1]
  /\ driver' = [driver EXCEPT ![p] = None]
  /\ pc' = [pc EXCEPT ![p] = "return"]
  /\ UNCHANGED <<drivers, nextDriver, leases, cache, sid, result, reqs, started, retryVars, restVars>>

PoolStep(p) ==
  \/ GetCheck(p)
  \/ GetCreate(p)
  \/ GetCreateFail(p)
  \/ GetPop(p)
  \/ ReleaseCheck(p)
  \/ ReleaseAppend(p)
  \/ ReleaseQuit(p)

(* ----------------------- callers of the pool -------------------------- *)
\* a caller enters get_driver (check_scheme_id, line 178)
EnterGet(p) ==
  /\ pc[p] \in {"idle", "return"}
  /\ started < MaxCalls
  /\ started' = started + 1
  /\ pc' = [pc EXCEPT ![p] = "get"]
  /\ driver' = [driver EXCEPT ![p] = None]
  /\ UNCHANGED <<poolVars, cache, sid, result, reqs, retryVars, exited,
                 statusVars, parseVars>>

CallGet(p) == EnterGet(p) /\ UNCHANGED idleBefore

\* the caller is done with what get_driver returned (check_scheme_id,
\* lines 180 and 264-265: release_driver is called only with a session)
CallRelease(p) ==
  /\ pc[p] = "got"
  /\ pc' = [pc EXCEPT ![p] = IF driver[p] = None THEN "return" ELSE "release"]
  /\ UNCHANGED <<poolVars, cache, sid, driver, result, reqs, started, retryVars, restVars>>

InitPoolVars ==
  /\ drivers = <<>>
  /\ nextDriver = 0
  /\ quits = [d \in DriverIds |-> 0]
  /\ leases = [d \in DriverIds |-> 0]

InitThreadVars ==
  /\ cache = <<>>
  /\ pc = [p \in Procs |-> "idle"]
  /\ sid = [p \in Procs |-> None]
  /\ driver = [p \in Procs |-> None]
  /\ result = [p \in Procs |-> NoResult]
  /\ reqs = [p \in Procs |-> 0]
  /\ started = 0

InitRetryIdle ==
  /\ script = <<>>
  /\ maxRetries = DEFAULT_MAX_RETRIES
  /\ attempt = 0
  /\ invoked = 0
  /\ rpc = "off"
  /\ rResult = NoResult

\* the page of a request that has not started
NoPage == [loads |-> FALSE, alert |-> FALSE, card |-> FALSE, text |-> NoText]

\* check_status has not answered
NoResponse == [http |-> 0, status |-> "none", code |-> NoCode]

InitStatusIdle ==
  /\ schemeId = <<>>
  /\ passed = <<>>
  /\ site = NoPage
  /\ outcome = NoResult
  /\ response = NoResponse
  /\ spc = "off"

InitParseIdle ==
  /\ ptext = NoText
  /\ lineNo = 0
  /\ data = <<>>
  /\ currentKey = <<>>
  /\ formatted = <<>>
  /\ ppc = "off"

InitRest ==
  /\ exited = FALSE
  /\ idleBefore = 0
  /\ InitStatusIdle
  /\ InitParseIdle

InitPool == InitPoolVars /\ InitThreadVars /\ InitRetryIdle /\ InitRest

NextPool == \E p \in Callers : CallGet(p) \/ PoolStep(p) \/ CallRelease(p)

SpecPool == InitPool /\ [][NextPool]_vars

\* the sessions get_driver can hand out: in the list and held by no caller
IdleSessions == {d \in DriverIds : leases[d] = 0 /\ \E i \in 1..Len(drivers) : drivers[i] = d}

\* one caller alone: it notes the idle sessions as it enters get_driver and
\* passes what it got to release_driver straight away
SeqGet(p) == EnterGet(p) /\ idleBefore' = Cardinality(IdleSessions)

NextSeq == SeqGet(1) \/ PoolStep(1) \/ CallRelease(1)

SpecSeq == InitPool /\ [][NextSeq]_vars

\* cleanup_drivers, lines 467-475, run by atexit (line 479): quit() is called
\* on every element of _drivers, an exception it raises is logged; the list
\* is left as it is and the process ends: no thread takes a step after it
Cleanup ==
  /\ ~exited
  /\ exited' = TRUE
  /\ quits' = [d \in DriverIds |->
                quits[d] + Cardinality({i \in 1..Len(drivers) : drivers[i] = d})]
  /\ UNCHANGED <<drivers, nextDriver, leases, cache, threadVars, retryVars,
                 idleBefore, statusVars, parseVars>>

\* the callers of the pool while the process may exit at any moment
NextExit ==
  \/ \E p \in Threads : CallGet(p) \/ PoolStep(p) \/ CallRelease(p)
  \/ Cleanup

SpecExit == InitPool /\ [][NextExit]_vars

(* ------------------------ the lru_cache wrapper ----------------------- *)
CacheKeys(c) == {c[i].key : i \in 1..Len(c)}

CacheHas(c, k) == k \in CacheKeys(c)

CacheGet(c, k) == (CHOOSE i \in 1..Len(c) : c[i].key = k)

CacheValue(c, k) == c[CacheGet(c, k)].value

Without(c, k) == SelectSeq(c, LAMBDA e : e.key # k)

\* a hit moves the entry to the most recently used end
CacheTouch(c, k) == Append(Without(c, k), c[CacheGet(c, k)])

\* faulty variant: the later of two concurrent results overwrites the stored one
CacheStore_Overwrite(c, k, v) == Append(Without(c, k), [key |-> k, value |-> v])

\* after the wrapped call returned: a key added meanwhile is left alone, a
\* full cache drops its least recently used entry, the new entry goes last
CacheStore(c, k, v) ==
  IF CacheHas(c, k) THEN c
  ELSE IF Len(c) >= CACHE_MAXSIZE
       THEN Append(Tail(c), [key |-> k, value |-> v])
       ELSE Append(c, [key |-> k, value |-> v])

(* --------------------- the remote page an attempt sees ---------------- *)
\* loads: navigation, the input field and the submit button work (lines
\* 186-202); alert: the alert-danger element shows within 3 s (209-211);
\* card: the result card becomes visible (229-231); text: the card's lines.
CardTexts ==
  {NoText,
   << <<"No records found">> >>,
   << <<MARKER>>, <<"Eligibility", COLON, SPACE, "Yes">> >>}

Pages ==
  {[loads |-> FALSE, alert |-> FALSE, card |-> FALSE, text |-> NoText],
   [loads |-> TRUE, alert |-> TRUE, card |-> FALSE, text |-> NoText],
   [loads |-> TRUE, alert |-> FALSE, card |-> FALSE, text |-> NoText]}
  \cup {[loads |-> TRUE, alert |-> a, card |-> TRUE, text |-> txt] :
          a \in BOOLEAN, txt \in CardTexts}

\* "Eligibility Details" in result
HasMarker(txt) == \E i \in 1..Len(txt) : \E j \in 1..Len(txt[i]) : txt[i][j] = MARKER

\* truth value of a string: the empty string is false
Truthy(txt) == txt # NoText /\ txt # << <<>> >>

\* faulty variant: any non-empty card text is a success
Classify_NoMarkerTest(page) ==
  IF ~page.loads THEN ErrorOutcome("SYSTEM_ERROR")
  ELSE IF page.alert THEN ErrorOutcome("PATIENT_NOT_FOUND")
  ELSE IF page.card
       THEN IF Truthy(page.text)
            THEN SuccessOutcome(page.text)
            ELSE ErrorOutcome("PATIENT_NOT_FOUND")
       ELSE ErrorOutcome("NO_RESPONSE")

\* faulty variant: a page whose result card never shows raises out of the body
Classify_CardTimeoutRaises(page) ==
  IF ~page.loads THEN ErrorOutcome("SYSTEM_ERROR")
  ELSE IF page.alert THEN ErrorOutcome("PATIENT_NOT_FOUND")
  ELSE IF page.card
       THEN IF Truthy(page.text) /\ HasMarker(page.text)
            THEN SuccessOutcome(page.text)
            ELSE ErrorOutcome("PATIENT_NOT_FOUND")
       ELSE [status |-> "raise", code |-> NoCode, message |-> FALSE, text |-> NoText]

\* check_scheme_id, lines 184-260: the dictionary the body returns for a page
Classify(page) ==
  IF ~page.loads THEN ErrorOutcome("SYSTEM_ERROR")
  ELSE IF page.alert THEN ErrorOutcome("PATIENT_NOT_FOUND")
  ELSE IF page.card
       THEN IF Truthy(page.text) /\ HasMarker(page.text)
            THEN SuccessOutcome(page.text)
            ELSE ErrorOutcome("PATIENT_NOT_FOUND")
       ELSE ErrorOutcome("NO_RESPONSE")

\* faulty variant: the release sits at the end of the try, so an exception skips it
AfterBody_NoFinally(page, d) == IF d # None /\ page.loads THEN "release" ELSE "return"

\* check_scheme_id, lines 262-265: the finally block runs on every exit of
\* the try, and calls release_driver when the local driver is set
AfterBody(page, d) == IF d # None THEN "release" ELSE "return"

(* --------------------------- request threads -------------------------- *)
\* check_status passes the id to check_with_retry (line 311), whose first
\* iteration calls check_scheme_id (line 270) through the lru_cache wrapper
\* (line 170): a hit returns the stored value, a miss enters the body
Request(t, id) ==
  /\ pc[t] \in {"idle", "done"}
  /\ started < MaxRequests
  /\ started' = started + 1
  /\ reqs' = [reqs EXCEPT ![t] = @ + 1]
  /\ sid' = [sid EXCEPT ![t] = id]
  /\ driver' = [driver EXCEPT ![t] = None]
  /\ IF CacheHas(cache, id)
     THEN /\ result' = [result EXCEPT ![t] = CacheValue(cache, id)]
          /\ cache' = CacheTouch(cache, id)
          /\ pc' = [pc EXCEPT ![t] = "done"]
     ELSE /\ result' = [result EXCEPT ![t] = NoResult]
          /\ cache' = cache
          /\ pc' = [pc EXCEPT ![t] = "get"]
  /\ UNCHANGED <<poolVars, retryVars, restVars>>

\* check_scheme_id, lines 180-182: get_driver returned None
NoDriver(t) ==
  /\ pc[t] = "got"
  /\ driver[t] = None
  /\ result' = [result EXCEPT ![t] = NoDriverOutcome]
  /\ pc' = [pc EXCEPT ![t] = "return"]
  /\ UNCHANGED <<poolVars, cache, sid, driver, reqs, started, retryVars, restVars>>

\* check_scheme_id, lines 184-260: the remote interaction; a session that
\* was quit raises on its first use
Interact(t, page) ==
  /\ pc[t] = "got"
  /\ driver[t] # None
  /\ quits[driver[t]] > 0 => ~page.loads
  /\ result' = [result EXCEPT ![t] = Classify(page)]
  /\ pc' = [pc EXCEPT ![t] = AfterBody(page, driver[t])]
  /\ UNCHANGED <<poolVars, cache, sid, driver, reqs, started, retryVars, restVars>>

\* the body returned: the wrapper stores the value (line 170) and
\* check_with_retry returns it (line 273)
Store(t) ==
  /\ pc[t] = "return"
  /\ cache' = CacheStore(cache, sid[t], result[t])
  /\ pc' = [pc EXCEPT ![t] = "done"]
  /\ UNCHANGED <<poolVars, sid, driver, result, reqs, started, retryVars, restVars>>

Init == InitPoolVars /\ InitThreadVars /\ InitRetryIdle /\ InitRest

Next ==
  \E t \in Threads :
    \/ \E id \in Ids : Request(t, id)
    \/ PoolStep(t)
    \/ NoDriver(t)
    \/ \E page \in Pages : Interact(t, page)
    \/ Store(t)

Spec == Init /\ [][Next]_vars

(* ------------------------- check_with_retry --------------------------- *)
\* what one invocation of the attempt function does: raise, or return a dictionary
Raises == [status |-> "raise", code |-> NoCode, message |-> FALSE, text |-> NoText]

StubBehaviours ==
  {Raises,
   SuccessOutcome(<< <<MARKER>>, <<"Eligibility", COLON, SPACE, "Yes">> >>),
   ErrorOutcome("PATIENT_NOT_FOUND")}

\* line 268: for attempt in range(max_retries)
InRange(a, m) == a < m

\* faulty variant: an error dictionary is retried like an exception
Returns_OnlySuccess(b) == b.status = "success"

\* lines 269-274: a call that returns ends the loop, whatever it returns;
\* only a raised exception reaches the except clause
Returns(b) == b # Raises

\* faulty variant: attempt == max_retries
IsLastAttempt_OffByOne(a, m) == a = m

\* line 276: attempt == max_retries - 1
IsLastAttempt(a, m) == a = m - 1

\* line 268: the next iteration, or the end of the loop (the function then
\* returns None)
RetryFor ==
  /\ rpc = "for"
  /\ IF InRange(attempt, maxRetries)
     THEN rpc' = "try" /\ UNCHANGED rResult
     ELSE rpc' = "returned" /\ rResult' = NoneResult
  /\ UNCHANGED <<poolVars, cache, threadVars, restVars, script, maxRetries, attempt, invoked>>

\* lines 269-273: result = check_scheme_id(scheme_id); return result
RetryTry ==
  /\ rpc = "try"
  /\ invoked' = invoked + 1
  /\ IF Returns(script[invoked + 1])
     THEN rpc' = "returned" /\ rResult' = script[invoked + 1]
     ELSE rpc' = "except" /\ UNCHANGED rResult
  /\ UNCHANGED <<poolVars, cache, threadVars, restVars, script, maxRetries, attempt>>

\* lines 274-282: the except clause
RetryExcept ==
  /\ rpc = "except"
  /\ IF IsLastAttempt(attempt, maxRetries)
     THEN rpc' = "returned" /\ rResult' = ErrorOutcome("PATIENT_NOT_FOUND")
     ELSE rpc' = "sleep" /\ UNCHANGED rResult
  /\ UNCHANGED <<poolVars, cache, threadVars, restVars, script, maxRetries, attempt, invoked>>

\* line 283: time.sleep(1), then the loop variable advances
RetrySleep ==
  /\ rpc = "sleep"
  /\ attempt' = attempt + 1
  /\ rpc' = "for"
  /\ UNCHANGED <<poolVars, cache, threadVars, restVars, script, maxRetries, invoked, rResult>>

InitRetry ==
  /\ InitPoolVars
  /\ InitThreadVars
  /\ script \in [1..(MaxTries + 1) -> StubBehaviours]
  /\ maxRetries \in 0..MaxTries
  /\ attempt = 0
  /\ invoked = 0
  /\ rpc = "for"
  /\ rResult = NoResult
  /\ InitRest

NextRetry == RetryFor \/ RetryTry \/ RetryExcept \/ RetrySleep

SpecRetry == InitRetry /\ [][NextRetry]_vars

(* ----------------------- parse_eligibility_text ----------------------- *)
\* lines 348-356: the keys of expected_fields
ExpectedFields ==
  {"Eligibility", "Scheme Id", "Scheme Type", "Doctor Number", "Date of Birth",
   "Eligibility Start Date", "Eligibility End Date"}

\* lines 381-389: the keys of formatted_data and the key of data each one reads
FormattedKeys ==
  [eligibility |-> "Eligibility",
   schemeId |-> "Scheme Id",
   schemeType |-> "Scheme Type",
   doctorNumber |-> "Doctor Number",
   dateOfBirth |-> "Date of Birth",
   eligibilityStartDate |-> "Eligibility Start Date",
   eligibilityEndDate |-> "Eligibility End Date"]

\* a value of formatted_data: None, or a string
Null == [null |-> TRUE, str |-> <<>>]
Str(v) == [null |-> FALSE, str |-> v]

\* positions of the characters of q that are not whitespace
NonSpace(q) == {i \in 1..Len(q) : q[i] # SPACE}
MinOf(S) == CHOOSE i \in S : \A j \in S : i <= j
MaxOf(S) == CHOOSE i \in S : \A j \in S : j <= i

\* str.lstrip(), str.rstrip(), str.strip()
LStrip(q) == IF NonSpace(q) = {} THEN <<>> ELSE SubSeq(q, MinOf(NonSpace(q)), Len(q))
RStrip(q) == IF NonSpace(q) = {} THEN <<>> ELSE SubSeq(q, 1, MaxOf(NonSpace(q)))
Strip(q) == LStrip(RStrip(q))

\* line 344: text.strip().split('\n').  Stripping the text drops the blank
\* lines at both ends, the leading whitespace of the first line left and the
\* trailing whitespace of the last; splitting the empty string gives [''].
TextLines(txt) ==
  LET nb == {i \in 1..Len(txt) : NonSpace(txt[i]) # {}} IN
    IF nb = {} THEN << <<>> >>
    ELSE LET a == MinOf(nb)
             b == MaxOf(nb)
         IN [i \in 1..(b - a + 1) |->
               IF a = b THEN Strip(txt[a])
               ELSE IF i = 1 THEN LStrip(txt[a])
               ELSE IF i = b - a + 1 THEN RStrip(txt[b])
               ELSE txt[a + i - 1]]

\* line 366: ':' in line
HasColon(q) == \E i \in 1..Len(q) : q[i] = COLON

\* faulty variant: splits at the last colon of the line
SplitAt_Last(q) == MaxOf({i \in 1..Len(q) : q[i] = COLON})

\* line 367: line.split(':', 1) splits at the first colon
SplitAt(q) == MinOf({i \in 1..Len(q) : q[i] = COLON})

\* lines 368-369: parts[0].strip() and parts[1].strip()
KeyOf(q) == Strip(SubSeq(q, 1, SplitAt(q) - 1))
ValueOf(q) == Strip(SubSeq(q, SplitAt(q) + 1, Len(q)))

\* line 371: current_key in expected_fields
Recognized(k) == Len(k) = 1 /\ k[1] \in ExpectedFields

\* lines 375-378: the value a line without a colon leaves under current_key
Continued(d, k, line) ==
  IF k \in DOMAIN d /\ d[k] # <<>> THEN d[k] \o <<SPACE>> \o line ELSE line

\* dict.get(k)
Get(d, k) == IF k \in DOMAIN d THEN Str(d[k]) ELSE Null

\* lines 381-389
Format(d) == [n \in DOMAIN FormattedKeys |-> Get(d, <<FormattedKeys[n]>>)]

\* lines 360-378: one pass of the loop body
ParseLine ==
  /\ ppc = "loop"
  /\ lineNo < Len(TextLines(ptext))
  /\ lineNo' = lineNo + 1
  /\ LET line == Strip(TextLines(ptext)[lineNo + 1]) IN
       IF line = <<MARKER>>
         THEN UNCHANGED <<data, currentKey>>
       ELSE IF HasColon(line)
         THEN /\ currentKey' = KeyOf(line)
              /\ data' = IF Recognized(KeyOf(line))
                           THEN (KeyOf(line) :> ValueOf(line)) @@ data
                           ELSE data
       ELSE IF currentKey # <<>>
         THEN /\ data' = (currentKey :> Continued(data, currentKey, line)) @@ data
              /\ UNCHANGED currentKey
       ELSE UNCHANGED <<data, currentKey>>
  /\ UNCHANGED <<poolVars, cache, threadVars, retryVars, exited, idleBefore,
                 statusVars, ptext, formatted, ppc>>

\* lines 381-391: the loop is over, formatted_data is built and returned
ParseFormat ==
  /\ ppc = "loop"
  /\ lineNo = Len(TextLines(ptext))
  /\ formatted' = Format(data)
  /\ ppc' = "done"
  /\ UNCHANGED <<poolVars, cache, threadVars, retryVars, exited, idleBefore,
                 statusVars, ptext, lineNo, data, currentKey>>

\* the lines SpecParse builds its texts from
ParseLines ==
  {<<MARKER>>,
   <<"Eligibility", COLON, SPACE, "Yes">>,
   <<"Scheme Id", COLON, SPACE, "12345">>,
   <<"Doctor Number", COLON, SPACE, "D1">>,
   <<"Eligibility", COLON>>,
   <<"Date of Birth", COLON, SPACE, "12", COLON, "30">>,
   <<"Address", COLON, SPACE, "Cork">>,
   <<"Medical", SPACE, "Card">>,
   <<>>,
   <<SPACE, "Scheme Type", SPACE, COLON, "GMS", SPACE>>}

Texts == UNION {[1..n -> ParseLines] : n \in 0..MaxLines}

InitParse ==
  /\ InitPoolVars /\ InitThreadVars /\ InitRetryIdle
  /\ exited = FALSE
  /\ idleBefore = 0
  /\ InitStatusIdle
  /\ ptext \in Texts
  /\ lineNo = 0
  /\ data = <<>>
  /\ currentKey = <<>>
  /\ formatted = <<>>
  /\ ppc = "loop"

NextParse == ParseLine \/ ParseFormat

SpecParse == InitParse /\ [][NextParse]_vars

(* ---------------------------- check_status ---------------------------- *)
\* the characters a posted scheme_id is made of: whitespace, a letter, a
\* digit, a character that is neither
IdChars == {SPACE, "a", "1", "-"}

\* the posted scheme_id; a missing key and the empty string are both falsy
RawIds == UNION {[1..n -> IdChars] : n \in 0..MaxIdLen}

\* str.isalnum(): at least one character, all of them letters or digits
IsAlnum(q) == q # <<>> /\ \A i \in 1..Len(q) : q[i] \in {"a", "1"}

\* the body of a flask response: status code, "status" and "code" keys
Response(h, st, c) == [http |-> h, status |-> st, code |-> c]

\* lines 293-311: the two checks of check_status; an id that passes both is
\* handed to check_with_retry as posted
Validate ==
  /\ spc = "validate"
  /\ IF schemeId = <<>>
       THEN /\ response' = Response(400, "error", "MISSING_DATA")
            /\ spc' = "done"
            /\ UNCHANGED passed
     ELSE IF ~IsAlnum(Strip(schemeId))
       THEN /\ response' = Response(400, "error", "INVALID_FORMAT")
            /\ spc' = "done"
            /\ UNCHANGED passed
     ELSE /\ passed' = schemeId
          /\ spc' = "lookup"
          /\ UNCHANGED response
  /\ UNCHANGED <<poolVars, cache, threadVars, retryVars, exited, idleBefore,
                 parseVars, schemeId, site, outcome>>

\* what check_scheme_id does for the only request of the process: it misses
\* the cache and asks the pool for a session; with one (created) it
\* classifies the page, without one it returns the dictionary of line 182
Body(created) == IF created THEN Classify(site) ELSE NoDriverOutcome

\* lines 268-283 and 171-265: one iteration of check_with_retry.  A session
\* that was created has been appended by get_driver and again by
\* release_driver when the body is left; a returned dictionary is cached
\* and returned, an exception is retried or, on the last attempt, turned
\* into PATIENT_NOT_FOUND
Lookup(created) ==
  /\ spc = "lookup"
  /\ invoked' = invoked + 1
  /\ IF created
       THEN /\ nextDriver' = nextDriver + 1
            /\ drivers' = Append(Append(drivers, nextDriver + 1), nextDriver + 1)
       ELSE UNCHANGED <<nextDriver, drivers>>
  /\ IF Returns(Body(created))
       THEN /\ outcome' = Body(created)
            /\ cache' = CacheStore(cache, passed, Body(created))
            /\ spc' = "answer"
            /\ UNCHANGED attempt
     ELSE IF IsLastAttempt(attempt, maxRetries)
       THEN /\ outcome' = ErrorOutcome("PATIENT_NOT_FOUND")
            /\ spc' = "answer"
            /\ UNCHANGED <<cache, attempt>>
     ELSE /\ attempt' = attempt + 1
          /\ UNCHANGED <<outcome, cache, spc>>
  /\ UNCHANGED <<quits, leases, threadVars, script, maxRetries, rpc,
                 rResult, exited, idleBefore, parseVars, schemeId, passed,
                 site, response>>

\* lines 314-322: a success is parsed, anything else is answered with 400
Answer ==
  /\ spc = "answer"
  /\ IF outcome.status = "success"
       THEN /\ ptext' = outcome.text
            /\ lineNo' = 0
            /\ data' = <<>>
            /\ currentKey' = <<>>
            /\ ppc' = "loop"
            /\ spc' = "parse"
            /\ UNCHANGED <<response, formatted>>
       ELSE /\ response' = Response(400, outcome.status, outcome.code)
            /\ spc' = "done"
            /\ UNCHANGED parseVars
  /\ UNCHANGED <<poolVars, cache, threadVars, retryVars, exited, idleBefore,
                 schemeId, passed, site, outcome>>

\* lines 316-319: the parsed data is answered with 200
Respond ==
  /\ spc = "parse"
  /\ ppc = "done"
  /\ response' = Response(200, "success", NoCode)
  /\ spc' = "done"
  /\ UNCHANGED <<poolVars, cache, threadVars, retryVars, exited, idleBefore,
                 parseVars, schemeId, passed, site, outcome>>

InitStatus ==
  /\ InitPoolVars /\ InitThreadVars /\ InitRetryIdle
  /\ exited = FALSE
  /\ idleBefore = 0
  /\ schemeId \in RawIds
  /\ passed = <<>>
  /\ site \in Pages
  /\ outcome = NoResult
  /\ response = NoResponse
  /\ spc = "validate"
  /\ InitParseIdle

NextStatus ==
  \/ Validate
  \/ \E created \in BOOLEAN : Lookup(created)
  \/ Answer
  \/ ParseLine
  \/ ParseFormat
  \/ Respond

SpecStatus == InitStatus /\ [][NextStatus]_vars

(* ------------------------------ claims -------------------------------- *)
\* sessions constructed and not torn down
LiveSessions == {d \in 1..nextDriver : quits[d] = 0}

Range(q) == {q[i] : i \in 1..Len(q)}

\* callers that hold session d: get_driver returned it to them and they have
\* not yet called release_driver
Holders(d) == {p \in Procs : pc[p] \in {"got", "release"} /\ driver[p] = d}

\* threads inside the body of check_scheme_id
InBody(t) ==
  pc[t] \in {"get", "create", "pop", "got", "release", "rel_append", "rel_quit", "return"}

\* the outcomes of a fault: no session obtainable (line 182), an exception or
\* a timeout in the remote interaction (lines 253-260)
FaultOutcomes == {NoDriverOutcome, ErrorOutcome("SYSTEM_ERROR")}

\* C1: the number of sessions in existence (created and not yet quit) never
\* exceeds MAX_POOL_SIZE, under any interleaving of get_driver and
\* release_driver calls.
C1_SessionsWithinCapacity == Cardinality(LiveSessions) <= MAX_POOL_SIZE

\* C2: a session is leased to at most one caller at a time.
C2_ExclusiveLease == \A d \in DriverIds : leases[d] <= 1

\* C3: a session some caller holds leased is not an element of the available
\* list _drivers.
C3_IdleLeasedDisjoint == \A d \in DriverIds : leases[d] > 0 => d \notin Range(drivers)

\* C4: every attempt that obtained a session releases it exactly once on every
\* exit path: at any time the leases of a session are exactly the attempts
\* still holding it, so once all attempts have returned no session is leased.
C4_ReleasedOnEveryExit ==
  /\ \A d \in DriverIds : leases[d] = Cardinality(Holders(d))
  /\ (\A t \in Threads : pc[t] \in {"idle", "done"}) => \A d \in DriverIds : leases[d] = 0

\* an attempt obtained a session, the remote interaction raised, the attempt
\* returned and the request is answered with no lease left
C4_Witness ==
  \E t \in Threads :
    /\ pc[t] = "done"
    /\ result[t] = ErrorOutcome("SYSTEM_ERROR")
    /\ nextDriver = 1
    /\ \A d \in DriverIds : leases[d] = 0
    /\ \A u \in Threads : pc[u] \in {"idle", "done"}

\* C5: a transient fault inside an attempt is never returned to the caller as
\* the lookup's result.
C5_FaultsNotReturned ==
  \A t \in Threads : pc[t] = "done" => result[t] \notin FaultOutcomes

FirstReturn == CHOOSE i \in 1..maxRetries :
                 /\ script[i] # Raises
                 /\ \A j \in 1..(i - 1) : script[j] = Raises

\* C6: with max_retries >= 1, check_with_retry returns the outcome of the
\* first invocation that does not raise, success or known error, and invokes
\* the attempt no further.
C6_FirstReturnWins ==
  (rpc = "returned" /\ maxRetries >= 1 /\ \E i \in 1..maxRetries : script[i] # Raises)
    => (rResult = script[FirstReturn] /\ invoked = FirstReturn)

\* two raising invocations, a success on the third, max_retries = 3
C6_Witness ==
  /\ rpc = "returned"
  /\ maxRetries = 3
  /\ script[1] = Raises /\ script[2] = Raises
  /\ script[3].status = "success"
  /\ rResult = script[3]
  /\ invoked = 3

\* C7: when every invocation raises, check_with_retry with max_retries = n,
\* n >= 1, invokes the attempt exactly n times and returns the error outcome
\* PATIENT_NOT_FOUND.
C7_ExhaustedBudget ==
  /\ (rpc = "returned" /\ maxRetries >= 1 /\ \A i \in 1..maxRetries : script[i] = Raises)
       => (invoked = maxRetries /\ rResult = ErrorOutcome("PATIENT_NOT_FOUND"))
  /\ (\A i \in 1..maxRetries : script[i] = Raises) => invoked <= maxRetries

C7_Witness ==
  /\ rpc = "returned"
  /\ maxRetries = 3
  /\ \A i \in 1..3 : script[i] = Raises
  /\ invoked = 3
  /\ rResult = ErrorOutcome("PATIENT_NOT_FOUND")

\* C8: a lookup that completes leaves an entry for its identifier; an entry
\* keeps its outcome for as long as it stays in the cache; and a request for an
\* identifier the cache holds is answered with exactly the stored outcome, in
\* the same step, with no attempt run and the pool untouched.
C8_CacheHitReturnsStored ==
  [][/\ \A t \in Threads :
          (pc[t] = "return" /\ pc'[t] = "done") => CacheHas(cache', sid[t])
     /\ \A k \in CacheKeys(cache) :
          CacheHas(cache', k) => CacheValue(cache', k) = CacheValue(cache, k)
     /\ \A t \in Threads :
          (reqs'[t] = reqs[t] + 1 /\ CacheHas(cache, sid'[t]))
            => /\ pc'[t] = "done"
               /\ result'[t] = CacheValue(cache, sid'[t])
               /\ CacheHas(cache', sid'[t])
               /\ UNCHANGED poolVars]_vars

\* thread 1 alone made two requests that left one cache entry: a lookup that
\* ran an attempt with a session, then a hit on the stored success
C8_Witness ==
  /\ started = 2
  /\ reqs[1] = 2
  /\ pc[1] = "done"
  /\ Len(cache) = 1
  /\ nextDriver = 1
  /\ Len(drivers) = 2
  /\ result[1].status = "success"
  /\ result[1] = CacheValue(cache, sid[1])

\* C9: a lookup that ends in a fault leaves no cache entry for its identifier.
C9_FaultsNotCached ==
  \A i \in 1..Len(cache) : cache[i].value \notin FaultOutcomes

\* C10: at most one attempt computation is in flight per identifier, and the
\* callers that asked for it concurrently are answered alike.
C10_SingleFlight ==
  \A t, u \in Threads : (t # u /\ InBody(t) /\ InBody(u)) => sid[t] # sid[u]

\* the codes a failure may carry
ErrorCodes == {"PATIENT_NOT_FOUND", "NO_RESPONSE", "SYSTEM_ERROR"}

\* a success with its raw text, or an error with a code and a message
WellFormed(o) ==
  \/ o.status = "success" /\ o.text # NoText
  \/ o.status = "error" /\ o.code \in ErrorCodes /\ o.message

\* C11: every value a lookup returns is a well-formed outcome, also when no
\* session can be obtained from the pool.
C11_WellFormedOutcome ==
  \A t \in Threads : pc[t] = "done" => WellFormed(result[t])

\* the lookup of SpecStatus has returned and its attempts ran with a session
Attempted == invoked > 0 /\ nextDriver = invoked /\ spc \in {"answer", "parse", "done"}

\* C12: an attempt returns success only when the text of the result element
\* contains "Eligibility Details"; a result element whose text is empty or
\* lacks the marker gives PATIENT_NOT_FOUND.
C12_SuccessNeedsMarker ==
  Attempted =>
    /\ outcome.status = "success" =>
         /\ site.card
         /\ outcome.text = site.text
         /\ Truthy(outcome.text)
         /\ HasMarker(outcome.text)
    /\ (site.loads /\ ~site.alert /\ site.card
          /\ ~(Truthy(site.text) /\ HasMarker(site.text)))
         => outcome = ErrorOutcome("PATIENT_NOT_FOUND")

\* the result card showed text without the marker and the request was
\* answered 400 PATIENT_NOT_FOUND
C12_Witness ==
  /\ spc = "done"
  /\ nextDriver = 1
  /\ site.loads /\ ~site.alert /\ site.card
  /\ site.text = << <<"No records found">> >>
  /\ outcome = ErrorOutcome("PATIENT_NOT_FOUND")
  /\ response = Response(400, "error", "PATIENT_NOT_FOUND")

\* the attempt saw no alert element and no marked result
Ambiguous == site.loads /\ ~site.alert /\ ~(site.card /\ HasMarker(site.text))

C20_PassedIsNormalized ==
  /\ passed # <<>> => (passed = Strip(passed) /\ IsAlnum(passed))
  /\ \A k \in CacheKeys(cache) : k = Strip(k)

\* the lines the loop of the parser runs over, each one trimmed
TrimmedLines == [i \in 1..Len(TextLines(ptext)) |-> Strip(TextLines(ptext)[i])]

\* the position of the first colon of a line, the key before it and the
\* trimmed text after it
FirstColon(l) == CHOOSE i \in 1..Len(l) : l[i] = COLON /\ \A j \in 1..(i - 1) : l[j] # COLON
KeyBefore(l) == Strip(SubSeq(l, 1, FirstColon(l) - 1))
TextAfter(l) == Strip(SubSeq(l, FirstColon(l) + 1, Len(l)))

\* the text is blank, or each of its lines is the header or has a colon
KeyValueText(tl) ==
  \/ tl = << <<>> >>
  \/ \A i \in 1..Len(tl) : tl[i] = <<MARKER>> \/ HasColon(tl[i])

\* the lines that give a value to the key f
LinesOf(tl, f) ==
  {i \in 1..Len(tl) :
     tl[i] # <<MARKER>> /\ HasColon(tl[i]) /\ KeyBefore(tl[i]) = <<f>>}

\* C14: for a text of header and "key: value" lines the parser returns exactly
\* the seven canonical fields; a recognized key maps to the trimmed text after
\* the first colon of its line (the last such line when the key is repeated),
\* a recognized key without a line maps to null, and no other line counts.
C14_ParseKeyValueLines ==
  ppc = "done" =>
    LET tl == TrimmedLines IN
      KeyValueText(tl) =>
        /\ DOMAIN formatted = DOMAIN FormattedKeys
        /\ Cardinality(DOMAIN formatted) = 7
        /\ \A n \in DOMAIN FormattedKeys :
             LET at == LinesOf(tl, FormattedKeys[n]) IN
               formatted[n] = IF at = {} THEN Null ELSE Str(TextAfter(tl[MaxOf(at)]))

\* "Eligibility: Yes\nScheme Id: 12345\nDoctor Number: D1\n" has been parsed
C14_Witness ==
  /\ ppc = "done"
  /\ ptext = << <<"Eligibility", COLON, SPACE, "Yes">>,
                <<"Scheme Id", COLON, SPACE, "12345">>,
                <<"Doctor Number", COLON, SPACE, "D1">>,
                <<>> >>
  /\ formatted.eligibility = Str(<<"Yes">>)
  /\ formatted.schemeId = Str(<<"12345">>)
  /\ formatted.doctorNumber = Str(<<"D1">>)
  /\ \A n \in {"schemeType", "dateOfBirth", "eligibilityStartDate",
               "eligibilityEndDate"} : formatted[n] = Null

\* C15: the parser never returns an empty string for a field; a field with
\* no observed value is null.
C15_NoEmptyString ==
  ppc = "done" => \A n \in DOMAIN formatted : formatted[n] # Str(<<>>)

\* C16: get_driver followed at once by release_driver on the returned session
\* leaves as many idle sessions as there were before the get_driver call
\* (stated for a pool that had an idle session to hand out).
C16_GetReleaseKeepsIdleCount ==
  [][(pc[1] \in {"rel_append", "rel_quit"} /\ pc'[1] = "return" /\ idleBefore > 0)
       => Cardinality(IdleSessions') = idleBefore]_vars

\* C17: get_driver hands out an idle session whenever there is one, taking it
\* off the list, and constructs a session only when none is idle and fewer
\* than MAX_POOL_SIZE sessions exist.
C17_ReuseBeforeCreate ==
  [][(pc[1] \in {"create", "pop"} /\ pc'[1] = "got") =>
       /\ IdleSessions # {} =>
            /\ driver'[1] \in IdleSessions
            /\ nextDriver' = nextDriver
            /\ Len(drivers') = Len(drivers) - 1
       /\ nextDriver' # nextDriver =>
            /\ IdleSessions = {}
            /\ Cardinality(LiveSessions) < MAX_POOL_SIZE]_vars

\* C18: no step quits a session that a caller still holds.
C18_NoQuitWhileLeased ==
  [][\A d \in DriverIds : quits'[d] > quits[d] => leases'[d] = 0]_vars

\* C19: once cleanup_drivers has run, every session the pool created has
\* been quit (a further quit() of the same session is tolerated).
C19_AllTornDown ==
  exited => \A d \in 1..nextDriver : quits[d] >= 1

\* C21: get_driver never returns a session that release_driver has quit; a
\* session quit because the list was full is not handed out again.
C21_NoQuitSessionReturned ==
  [][\A p \in Procs :
       (pc[p] \in {"create", "pop"} /\ pc'[p] = "got" /\ driver'[p] # None)
         => quits[driver'[p]] = 0]_vars

====
